---- MODULE Spec2Model ----
(***************************************************************************)
(* fs.notify (notify.js): the Notify instance as a state machine.          *)
(*                                                                         *)
(* State: the two instance maps FSWatchers and FStats, the OS watch        *)
(* handles fs.watch has returned, the fs.stat requests in flight, the      *)
(* events the instance has emitted, and the filesystem the runtime reads.  *)
(* One action per prototype method (add, close, watch, manually, reset,    *)
(* change, error), one for the completion of an fs.stat request, and two   *)
(* for the outside world changing the filesystem.                          *)
(*                                                                         *)
(* Runtime facts the model relies on (Node.js, the async library):         *)
(*  - calling a value that is not a function, or reading a property of     *)
(*    undefined, throws a TypeError at that point of the method;           *)
(*  - fs.stat rejects a first argument that is not a path synchronously,   *)
(*    with a TypeError, and never calls a callback for it;                 *)
(*  - fs.watch throws when the watch cannot be established;                *)
(*  - Array.prototype.forEach calls its callback with `this` undefined     *)
(*    (the file is in strict mode).                                        *)
(* A method that throws leaves every assignment it had not reached undone. *)
(***************************************************************************)
EXTENDS Naturals, Integers, Sequences, FiniteSets, TLC

\* ---------------------------------------------------------------- bounds

\* The paths a caller may name, and the filename an OS notification may carry.
Paths == {"p1", "p2"}
Filenames == {"f"}

\* fs.watch handles ever created.
MaxHandles == 2
\* Modification times run 0..MaxMtime.
MaxMtime == 1
\* Events kept in the emitted log.
MaxEvents == 2
\* fs.stat requests in flight at once.
MaxInflight == 1
\* fs.stat requests in flight at once where overlapping requests are studied.
MaxOverlap == 2

\* ---------------------------------------------------------------- values

\* A falsy filename: the OS did not say which entry changed.
NoFilename == ""
\* JavaScript undefined, where a function or object was expected.
Undefined == "undefined"
\* The `fs` module object, as a value passed to a function.
FsModule == "[object fs]"
\* The callback `function stats(err, stat)`, as a value passed to a function.
StatsFn == "[function stats]"
\* No handle: an absent key of FSWatchers, or manually() called with no argument.
NoHandle == 0

\* An absent key of FStats.
NoStat == [kind |-> "none", mtime |-> 0]
\* The filesystem entry of a path that does not exist.
Absent == [kind |-> "absent", mtime |-> 0]

Kinds == {"file", "dir"}
Snapshots == [kind : Kinds, mtime : 0..MaxMtime]

VARIABLES
    fsys,        \* the filesystem: path -> [kind, mtime], kind "absent" when missing
    handles,     \* the FSWatcher objects fs.watch returned: <<[path, open]>>
    FSWatchers,  \* this.FSWatchers: path -> handle index, NoHandle when no key
    FStats,      \* this.FStats: path -> snapshot, NoStat when no key
    inflight,    \* fs.stat requests issued and not yet completed, in issue order
    events,      \* everything emitted so far, in order
    closed,      \* close() ran and nothing has been registered since
    lastOp       \* what the last step was and what it did

vars == <<fsys, handles, FSWatchers, FStats, inflight, events, closed, lastOp>>

\* ---------------------------------------------------------------- helpers

Event(type, file, stat) == [type |-> type, file |-> file, stat |-> stat]

\* One fs.stat request: the call site, the first argument given to fs.stat,
\* the closure variables of its callback, and whether `self` is the instance.
\* `newer` is bookkeeping: the snapshot that a request issued later for the same
\* path has already stored in FStats (NoStat while none has).
Req(site, target, path, filename, current, bound) ==
    [site |-> site, target |-> target, path |-> path, filename |-> filename,
     current |-> current, bound |-> bound, newer |-> NoStat]

\* One fs.stat invocation a method reached: where, for which file, with which
\* first argument.
Call(site, file, target) == [site |-> site, file |-> file, target |-> target]

\* The record of a step.
Op(op, path, handle, filename, batch, threw, emitted, statCalls, issued, site) ==
    [op |-> op, path |-> path, handle |-> handle, filename |-> filename,
     batch |-> batch, threw |-> threw, emitted |-> emitted,
     statCalls |-> statCalls, issued |-> issued, site |-> site,
     current |-> NoStat, newer |-> NoStat,
     again |-> (/\ op \in {"close", "error"}
                /\ lastOp.op = op
                /\ lastOp.handle = handle)]

RemoveAt(s, i) == SubSeq(s, 1, i - 1) \o SubSeq(s, i + 1, Len(s))

\* Object.keys(obj) of a map of this model.
Keys(map, none) == {p \in Paths : map[p] # none}

\* Every ordering of a set of paths (Object.keys follows insertion order, which
\* this model does not track).
Orderings(S) ==
    {s \in UNION {[1..n -> S] : n \in {Cardinality(S)}} :
        \A i, j \in DOMAIN s : i # j => s[i] # s[j]}

\* ------------------------------------------------- what the runtime does

\* fs.stat(path, callback) with a first argument that is not a path string:
\* the binding throws a TypeError before any I/O and never calls a callback.
fsStatThrows(target) == target \notin Paths

\* What a completed fs.stat hands to its callback as `stat`: the snapshot of
\* the target at completion, or nothing (NoStat, with err set) when it is gone.
fsStatResult(target) ==
    IF fsys[target].kind = "absent" THEN NoStat ELSE fsys[target]

\* `current.mtime !== stat.mtime`: both are Date objects, and each fs.stat
\* builds a new Stats object with new Dates, so the two are never the same
\* object, whatever instants they hold.
mtimeNotSame(current, stat) == TRUE

\* ------------------------------------------------------- names in the code

\* `fs.exist`: the fs module has `exists`, no `exist`.
fsExist == Undefined

\* Variant: error() and reset() name the map the constructor assigns.
thisFSWatchers == "FSWatchers"

\* `this.FSWatcher`: the constructor assigns FSWatchers and FStats only.
thisFSWatcher == Undefined

\* The first argument of the fs.stat call in manually(): the callback itself.
ManuallyStatTarget(file) == StatsFn

\* Variant: change() stats the FSWatcher's path.
ChangeStatTargetPath(path) == path

\* The first argument of the fs.stat call in change(): the fs module.
ChangeStatTarget(path) == FsModule

\* --------------------------------------------------------------- add

\* `if (!Array.isArray(files)) files = [files]`
normalize(input) ==
    IF input.isArray THEN input.items ELSE <<input.items[1]>>

\* Variant: a filter that keeps every element and never calls the iterator.
asyncFilterKeepsAll(files, iterator) == [threw |-> FALSE, result |-> files]

\* async.filter(files, iterator, callback): an empty array completes at once
\* with []; otherwise the iterator is called on each element, which throws when
\* it is not a function.
asyncFilter(files, iterator) ==
    IF files = <<>> THEN [threw |-> FALSE, result |-> <<>>]
    ELSE IF iterator = Undefined THEN [threw |-> TRUE, result |-> <<>>]
    ELSE [threw |-> FALSE,
          result |-> SelectSeq(files, LAMBDA p : fsys[p].kind # "absent")]

\* `files.forEach(self.watch)`: watch runs with `this` undefined. Its fs.stat
\* is issued (the callback closes over self = undefined), then
\* `this.FSWatchers` throws and the loop ends at the first element.
forEachWatch(files) ==
    IF files = <<>> THEN [threw |-> FALSE, issued |-> <<>>]
    ELSE [threw |-> TRUE,
          issued |-> <<Req("watch", Head(files), Head(files), NoFilename,
                           NoStat, FALSE)>>]

\* Variant: an add() that announces every path of the batch before it returns.
addEmitsAtOnce(input) ==
    [threw |-> FALSE, issued |-> <<>>, files |-> normalize(input),
     emitted |-> [i \in DOMAIN normalize(input) |->
                     Event("change", normalize(input)[i], NoStat)]]

\* add(files): nothing is emitted by add itself, whether the filter throws or
\* its completion callback runs.
add(input) ==
    LET files == normalize(input)
        kept == asyncFilter(files, fsExist)
    IN  IF kept.threw
        THEN [threw |-> TRUE, issued |-> <<>>, files |-> files,
              emitted |-> <<>>]
        ELSE [threw |-> forEachWatch(kept.result).threw,
              issued |-> forEachWatch(kept.result).issued, files |-> files,
              emitted |-> <<>>]

AddInputs ==
    [isArray : {TRUE}, items : {<<>>} \cup {<<p>> : p \in Paths}
                               \cup {<<p, q>> : p, q \in Paths}]
    \cup [isArray : {FALSE}, items : {<<p>> : p \in Paths}]

Add(input) ==
    LET r == add(input) IN
    /\ Len(inflight) + Len(r.issued) <= MaxInflight
    /\ Len(events) + Len(r.emitted) <= MaxEvents
    /\ inflight' = inflight \o r.issued
    /\ events' = events \o r.emitted
    /\ lastOp' = Op("add", "", NoHandle, NoFilename, r.files, r.threw,
                    r.emitted, <<>>, r.issued, "")
    /\ UNCHANGED <<fsys, handles, FSWatchers, FStats, closed>>

\* --------------------------------------------------------------- close

\* The handles close() closes: every value of FSWatchers.
closeAll(hs, watchers) ==
    [i \in DOMAIN hs |->
        IF \E p \in Paths : watchers[p] = i
        THEN [hs[i] EXCEPT !.open = FALSE] ELSE hs[i]]

\* Variant: a close() that emits only when something was registered.
closeSilentWhenEmpty(hs, watchers, cache) ==
    [handles |-> closeAll(hs, watchers),
     watchers |-> [p \in Paths |-> NoHandle],
     cache |-> [p \in Paths |-> NoStat],
     emitted |-> IF \E p \in Paths : watchers[p] # NoHandle
                 THEN <<Event("close", "", NoStat)>> ELSE <<>>]

\* close(): every FSWatcher stored is closed, both maps are replaced by empty
\* ones, and 'close' is emitted, on every call.
close(hs, watchers, cache) ==
    [handles |-> closeAll(hs, watchers),
     watchers |-> [p \in Paths |-> NoHandle],
     cache |-> [p \in Paths |-> NoStat],
     emitted |-> <<Event("close", "", NoStat)>>]

Close ==
    LET r == close(handles, FSWatchers, FStats) IN
    /\ Len(events) + Len(r.emitted) <= MaxEvents
    /\ handles' = r.handles
    /\ FSWatchers' = r.watchers
    /\ FStats' = r.cache
    /\ events' = events \o r.emitted
    /\ closed' = TRUE
    /\ lastOp' = Op("close", "", NoHandle, NoFilename, <<>>, FALSE, r.emitted,
                    <<>>, <<>>, "")
    /\ UNCHANGED <<fsys, inflight>>

\* --------------------------------------------------------------- watch

\* watch(path) on the instance: the initial fs.stat is issued first; then
\* fs.watch either throws (nothing is stored) or returns a new FSWatcher, which
\* is stored under the path (an earlier FSWatcher of the path is overwritten,
\* not closed) and tagged with it.
watch(path, rejects, hs, watchers) ==
    [issued |-> <<Req("watch", path, path, NoFilename, NoStat, TRUE)>>,
     threw |-> rejects,
     handles |-> IF rejects THEN hs
                 ELSE Append(hs, [path |-> path, open |-> TRUE]),
     watchers |-> IF rejects THEN watchers
                  ELSE [watchers EXCEPT ![path] = Len(hs) + 1]]

\* fs.watch cannot watch what is not there; it may also refuse a path that
\* exists (watch limit, permissions).
WatchOutcomes(path) ==
    IF fsys[path].kind = "absent" THEN {TRUE} ELSE BOOLEAN

WatchUpTo(path, pending) ==
    \E rejects \in WatchOutcomes(path) :
        LET r == watch(path, rejects, handles, FSWatchers) IN
        /\ Len(inflight) + Len(r.issued) <= pending
        /\ Len(r.handles) <= MaxHandles
        /\ inflight' = inflight \o r.issued
        /\ handles' = r.handles
        /\ FSWatchers' = r.watchers
        /\ closed' = (closed /\ rejects)
        /\ lastOp' = Op("watch", path, r.watchers[path], NoFilename, <<>>,
                        r.threw, <<>>, <<Call("watch", path, path)>>,
                        r.issued, "")
        /\ UNCHANGED <<fsys, FStats, events>>

Watch(path) == WatchUpTo(path, MaxInflight)

\* --------------------------------------------------------------- manually

\* Variant: a sweep that ignores the FSWatcher it is given.
manuallyFilesAll(h, hs, cache) == Orderings(Keys(cache, NoStat))

\* The files a sweep covers: the FSWatcher's own path when one is given (and
\* tagged), every key of FStats otherwise.
manuallyFiles(h, hs, cache) ==
    IF h # NoHandle /\ hs[h].path # ""
    THEN {<<hs[h].path>>}
    ELSE Orderings(Keys(cache, NoStat))

\* `files.forEach(function test(file) {...})`: a file with no cached snapshot
\* is skipped; for the others fs.stat is called with ManuallyStatTarget(file)
\* as its first argument and no callback. A throwing fs.stat ends the loop.
RECURSIVE sweep(_, _)
sweep(files, cache) ==
    IF files = <<>> THEN [threw |-> FALSE, calls |-> <<>>, issued |-> <<>>]
    ELSE
        LET file == Head(files)
            current == cache[file]
            target == ManuallyStatTarget(file)
        IN  IF current = NoStat THEN sweep(Tail(files), cache)
            ELSE IF fsStatThrows(target)
            THEN [threw |-> TRUE, calls |-> <<Call("manually", file, target)>>,
                  issued |-> <<>>]
            ELSE
                LET rest == sweep(Tail(files), cache) IN
                [threw |-> rest.threw,
                 calls |-> <<Call("manually", file, target)>> \o rest.calls,
                 issued |-> <<Req("manually", target, file, NoFilename,
                                  current, TRUE)>> \o rest.issued]

\* manually(FSWatcher), called by the user: with any FSWatcher ever returned,
\* or with none.
Manually(h) ==
    \E files \in manuallyFiles(h, handles, FStats) :
        LET r == sweep(files, FStats) IN
        /\ Len(inflight) + Len(r.issued) <= MaxInflight
        /\ inflight' = inflight \o r.issued
        /\ lastOp' = Op("manually",
                        IF h = NoHandle THEN "" ELSE handles[h].path, h,
                        NoFilename, files, r.threw, <<>>, r.calls, r.issued, "")
        /\ UNCHANGED <<fsys, handles, FSWatchers, FStats, events, closed>>

\* --------------------------------------------------------------- change

\* Variant: a change() that drops the cached snapshot of the path when an
\* fs.stat call fails.
changeForgetsOnFailure(h, filename, files, hs, cache) ==
    LET path == hs[h].path
        sw == IF filename = NoFilename THEN sweep(files, cache)
              ELSE [threw |-> FALSE, calls |-> <<>>, issued |-> <<>>]
        target == ChangeStatTarget(path)
    IN  IF sw.threw
        THEN [threw |-> TRUE, calls |-> sw.calls, issued |-> sw.issued,
              cache |-> [cache EXCEPT ![path] = NoStat]]
        ELSE IF fsStatThrows(target)
        THEN [threw |-> TRUE,
              calls |-> sw.calls \o <<Call("change", path, target)>>,
              issued |-> sw.issued, cache |-> [cache EXCEPT ![path] = NoStat]]
        ELSE [threw |-> FALSE,
              calls |-> sw.calls \o <<Call("change", path, target)>>,
              issued |-> sw.issued \o <<Req("change", target, path, filename,
                                            NoStat, TRUE)>>,
              cache |-> cache]

\* change(FSWatcher, event, filename): without a filename the sweep of the
\* FSWatcher's path runs first; there is no return after it, so unless it threw
\* the method goes on to its own fs.stat, called with ChangeStatTarget(path).
change(h, filename, files, hs, cache) ==
    LET path == hs[h].path
        sw == IF filename = NoFilename THEN sweep(files, cache)
              ELSE [threw |-> FALSE, calls |-> <<>>, issued |-> <<>>]
        target == ChangeStatTarget(path)
    IN  IF sw.threw
        THEN [threw |-> TRUE, calls |-> sw.calls, issued |-> sw.issued,
              cache |-> cache]
        ELSE IF fsStatThrows(target)
        THEN [threw |-> TRUE,
              calls |-> sw.calls \o <<Call("change", path, target)>>,
              issued |-> sw.issued, cache |-> cache]
        ELSE [threw |-> FALSE,
              calls |-> sw.calls \o <<Call("change", path, target)>>,
              issued |-> sw.issued \o <<Req("change", target, path, filename,
                                            NoStat, TRUE)>>,
              cache |-> cache]

\* The OS delivers a change notification on an open FSWatcher, with or without
\* a filename.
Change(h, filename) ==
    /\ handles[h].open
    /\ \E files \in manuallyFiles(h, handles, FStats) :
        LET r == change(h, filename, files, handles, FStats) IN
        /\ Len(inflight) + Len(r.issued) <= MaxInflight
        /\ inflight' = inflight \o r.issued
        /\ FStats' = r.cache
        /\ lastOp' = Op("change", handles[h].path, h, filename, <<>>, r.threw,
                        <<>>, r.calls, r.issued, "")
    /\ UNCHANGED <<fsys, handles, FSWatchers, events, closed>>

\* --------------------------------------------------------------- error

\* error(FSWatcher, err): `delete this.FSWatcher[path]` comes first; with
\* this.FSWatcher undefined it throws, and neither the delete of the FStats key
\* nor the emit is reached.
error(h, hs, watchers, cache) ==
    LET path == hs[h].path IN
    IF thisFSWatcher = Undefined
    THEN [threw |-> TRUE, watchers |-> watchers, cache |-> cache,
          emitted |-> <<>>]
    ELSE [threw |-> FALSE,
          watchers |-> [watchers EXCEPT ![path] = NoHandle],
          cache |-> [cache EXCEPT ![path] = NoStat],
          emitted |-> <<Event("removed", path, NoStat)>>]

\* The OS reports an error on an open FSWatcher. Whether the runtime closes the
\* handle before it emits 'error' differs between Node versions.
Error(h) ==
    /\ handles[h].open
    /\ \E closes \in BOOLEAN :
        LET r == error(h, handles, FSWatchers, FStats) IN
        /\ Len(events) + Len(r.emitted) <= MaxEvents
        /\ handles' = IF closes THEN [handles EXCEPT ![h].open = FALSE]
                      ELSE handles
        /\ FSWatchers' = r.watchers
        /\ FStats' = r.cache
        /\ events' = events \o r.emitted
        /\ lastOp' = Op("error", handles[h].path, h, NoFilename, <<>>, r.threw,
                        r.emitted, <<>>, <<>>, "")
    /\ UNCHANGED <<fsys, inflight, closed>>

\* --------------------------------------------------------------- reset

\* reset(path): `this.FSWatcher[path]` is the first thing evaluated; with
\* this.FSWatcher undefined it throws. Otherwise the FSWatcher of the path is
\* closed (a TypeError when the path has none), both keys are deleted and
\* watch(path) runs.
reset(path, rejects, hs, watchers, cache) ==
    IF thisFSWatcher = Undefined \/ watchers[path] = NoHandle
    THEN [threw |-> TRUE, handles |-> hs, watchers |-> watchers,
          cache |-> cache, issued |-> <<>>]
    ELSE
        LET shut == [hs EXCEPT ![watchers[path]].open = FALSE]
            w == watch(path, rejects, shut,
                       [watchers EXCEPT ![path] = NoHandle])
        IN  [threw |-> w.threw, handles |-> w.handles, watchers |-> w.watchers,
             cache |-> [cache EXCEPT ![path] = NoStat], issued |-> w.issued]

Reset(path) ==
    \E rejects \in WatchOutcomes(path) :
        LET r == reset(path, rejects, handles, FSWatchers, FStats) IN
        /\ Len(inflight) + Len(r.issued) <= MaxInflight
        /\ Len(r.handles) <= MaxHandles
        /\ inflight' = inflight \o r.issued
        /\ handles' = r.handles
        /\ FSWatchers' = r.watchers
        /\ FStats' = r.cache
        /\ closed' = (closed /\ r.threw)
        /\ lastOp' = Op("reset", path, r.watchers[path], NoFilename, <<>>,
                        r.threw, <<>>, <<>>, r.issued, "")
        /\ UNCHANGED <<fsys, events>>

\* ------------------------------------------------- fs.stat callbacks

\* watch's `function stats(err, stat) { if (stat) self.FStats[path] = stat; }`
\* With self undefined the assignment throws.
statsWatch(r, stat, cache) ==
    IF stat = NoStat THEN [threw |-> FALSE, cache |-> cache, emitted |-> <<>>]
    ELSE IF r.bound
    THEN [threw |-> FALSE, cache |-> [cache EXCEPT ![r.path] = stat],
          emitted |-> <<>>]
    ELSE [threw |-> TRUE, cache |-> cache, emitted |-> <<>>]

\* change's callback: store the snapshot if there is one, return on err,
\* otherwise emit change for the filename (a directory) or the path.
statsChange(r, stat, cache) ==
    IF stat = NoStat THEN [threw |-> FALSE, cache |-> cache, emitted |-> <<>>]
    ELSE [threw |-> FALSE, cache |-> [cache EXCEPT ![r.path] = stat],
          emitted |-> <<Event("change",
                              IF stat.kind = "dir" THEN r.filename ELSE r.path,
                              stat)>>]

\* manually's callback: return without a snapshot; emit change when the two
\* mtime objects differ. FStats is not written.
statsManually(r, stat, cache) ==
    IF stat = NoStat THEN [threw |-> FALSE, cache |-> cache, emitted |-> <<>>]
    ELSE [threw |-> FALSE, cache |-> cache,
          emitted |-> IF mtimeNotSame(r.current, stat)
                      THEN <<Event("change", r.path, stat)>> ELSE <<>>]

stats(r, stat, cache) ==
    IF r.site = "watch" THEN statsWatch(r, stat, cache)
    ELSE IF r.site = "change" THEN statsChange(r, stat, cache)
    ELSE statsManually(r, stat, cache)

\* The requests still pending once request i has completed and stored the
\* snapshot `stored` (NoStat: it stored none): those issued before it for the
\* same path take note of it.
overtaken(reqs, i, stored) ==
    [j \in DOMAIN reqs |->
        IF j < i /\ reqs[j].path = reqs[i].path /\ stored # NoStat
        THEN [reqs[j] EXCEPT !.newer = stored]
        ELSE reqs[j]]

\* An fs.stat request completes (in any order) and its callback runs.
StatComplete(i) ==
    LET r == inflight[i]
        stat == fsStatResult(r.target)
        out == stats(r, stat, FStats)
    IN  /\ Len(events) + Len(out.emitted) <= MaxEvents
        /\ inflight' = RemoveAt(overtaken(inflight, i,
                                IF r.site = "manually" \/ out.threw
                                THEN NoStat ELSE stat), i)
        /\ FStats' = out.cache
        /\ events' = events \o out.emitted
        /\ lastOp' = [Op("stats", r.path, NoHandle, r.filename, <<>>,
                         out.threw, out.emitted, <<>>, <<>>, r.site)
                      EXCEPT !.statCalls = <<Call(r.site, r.path, r.target)>>,
                             !.current = r.current,
                             !.newer = r.newer]
        /\ UNCHANGED <<fsys, handles, FSWatchers, closed>>

\* ------------------------------------------------------- the filesystem

\* Another process writes to a path.
Touch(path) ==
    /\ fsys[path].kind # "absent"
    /\ fsys[path].mtime < MaxMtime
    /\ fsys' = [fsys EXCEPT ![path].mtime = @ + 1]
    /\ lastOp' = Op("fs", "", NoHandle, NoFilename, <<>>, FALSE, <<>>,
                    <<>>, <<>>, "")
    /\ UNCHANGED <<handles, FSWatchers, FStats, inflight, events, closed>>

\* Another process removes a path.
Unlink(path) ==
    /\ fsys[path].kind # "absent"
    /\ fsys' = [fsys EXCEPT ![path] = Absent]
    /\ lastOp' = Op("fs", "", NoHandle, NoFilename, <<>>, FALSE, <<>>,
                    <<>>, <<>>, "")
    /\ UNCHANGED <<handles, FSWatchers, FStats, inflight, events, closed>>

\* --------------------------------------------------------- specification

\* `new Notify()`: both maps empty, nothing watched, nothing emitted. On the
\* filesystem p1 is a directory and p2 a file.
Init ==
    /\ fsys = [p \in Paths |-> [kind |-> IF p = "p1" THEN "dir" ELSE "file",
                                 mtime |-> 0]]
    /\ handles = <<>>
    /\ FSWatchers = [p \in Paths |-> NoHandle]
    /\ FStats = [p \in Paths |-> NoStat]
    /\ inflight = <<>>
    /\ events = <<>>
    /\ closed = FALSE
    /\ lastOp = [op |-> "new", path |-> "", handle |-> NoHandle,
                 filename |-> NoFilename, batch |-> <<>>, threw |-> FALSE,
                 emitted |-> <<>>, statCalls |-> <<>>, issued |-> <<>>,
                 site |-> "", current |-> NoStat, newer |-> NoStat,
                 again |-> FALSE]

Next ==
    \/ \E input \in AddInputs : Add(input)
    \/ Close
    \/ \E p \in Paths : Watch(p)
    \/ \E h \in {NoHandle} \cup {FSWatchers[p] : p \in Paths} : Manually(h)
    \/ \E p \in Paths : Reset(p)
    \/ \E h \in DOMAIN handles, f \in Filenames \cup {NoFilename} : Change(h, f)
    \/ \E h \in DOMAIN handles : Error(h)
    \/ \E i \in DOMAIN inflight : StatComplete(i)
    \/ \E p \in Paths : Touch(p)
    \/ \E p \in Paths : Unlink(p)

Spec == Init /\ [][Next]_vars

\* The same instance with overlapping fs.stat requests: repeated watch calls,
\* their stat completions in any order, close, and the filesystem changing.
NextOverlap ==
    \/ \E p \in Paths : WatchUpTo(p, MaxOverlap)
    \/ \E i \in DOMAIN inflight : StatComplete(i)
    \/ Close
    \/ \E p \in Paths : Touch(p)
    \/ \E p \in Paths : Unlink(p)

SpecOverlap == Init /\ [][NextOverlap]_vars

\* ------------------------------------------------------------- claims

Range(seq) == {seq[i] : i \in DOMAIN seq}
NoWatchers == [p \in Paths |-> NoHandle]
NoStats == [p \in Paths |-> NoStat]
Removed(path) == Event("removed", path, NoStat)

\* C1 (as claimed): right after the OS error callback ran for the handle of
\* path P, P is a key of neither FSWatchers nor FStats and that callback
\* emitted removed(P).
C1_ErrorTeardown ==
    lastOp.op = "error" =>
        /\ FSWatchers[lastOp.path] = NoHandle
        /\ FStats[lastOp.path] = NoStat
        /\ lastOp.emitted = <<Removed(lastOp.path)>>

C3_ExistenceFilter ==
    [][lastOp'.op = "add" =>
        \A p \in Range(lastOp'.batch) :
            fsys[p].kind = "absent" =>
                /\ FSWatchers'[p] = FSWatchers[p]
                /\ FStats'[p] = FStats[p]
                /\ \A r \in Range(lastOp'.issued) : r.path # p
                /\ lastOp'.emitted = <<>>
                /\ events' = events]_vars

\* C3 witness: add() has just run on a batch holding a path that does not
\* exist.
C3_Witness ==
    /\ lastOp.op = "add"
    /\ \E p \in Range(lastOp.batch) : fsys[p].kind = "absent"

\* C4 (as claimed): a raw change notification carrying filename F on the
\* handle of P, with P there to be stat-ed, resolves: a re-stat carrying P and
\* F is under way, and the change event its completion emits names F when the
\* fresh snapshot is a directory and P otherwise.
C4_IdentityResolution ==
    /\ (/\ lastOp.op = "change"
        /\ lastOp.filename # NoFilename
        /\ fsys[lastOp.path].kind # "absent") =>
            \E r \in Range(inflight) :
                /\ r.site = "change"
                /\ r.path = lastOp.path
                /\ r.filename = lastOp.filename
    /\ (/\ lastOp.op = "stats"
        /\ lastOp.site = "change"
        /\ lastOp.emitted # <<>>) =>
            lastOp.emitted[1].file =
                IF lastOp.emitted[1].stat.kind = "dir"
                THEN lastOp.filename ELSE lastOp.path

\* C5 (as claimed): a raw notification with a filename on the handle of P,
\* with P there to be stat-ed, issues one fs.stat of P itself; its completion
\* emits exactly one change event, and at that moment FStats[P] is the
\* snapshot the event carries.
C5_FreshSnapshot ==
    /\ (/\ lastOp.op = "change"
        /\ lastOp.filename # NoFilename
        /\ fsys[lastOp.path].kind # "absent") =>
            /\ ~lastOp.threw
            /\ lastOp.statCalls =
                   <<Call("change", lastOp.path, lastOp.path)>>
    /\ (/\ lastOp.op = "stats"
        /\ lastOp.site = "change"
        /\ fsys[lastOp.path].kind # "absent") =>
            /\ lastOp.statCalls[1].target = lastOp.path
            /\ Len(lastOp.emitted) = 1
            /\ lastOp.emitted[1].type = "change"
            /\ lastOp.emitted[1].stat = fsys[lastOp.path]
            /\ FStats[lastOp.path] = lastOp.emitted[1].stat

\* C6: a raw notification with no filename on the handle of P leaves every
\* other path Q alone: the sweep it starts reaches no fs.stat call for Q,
\* issues no request for Q, FStats[Q] keeps its value and no event is emitted
\* for Q.
C6_ScopedSweep ==
    [][(lastOp'.op = "change" /\ lastOp'.filename = NoFilename) =>
        \A q \in Paths \ {lastOp'.path} :
            /\ \A c \in Range(lastOp'.statCalls) : c.file # q /\ c.target # q
            /\ \A r \in Range(lastOp'.issued) : r.path # q /\ r.target # q
            /\ FStats'[q] = FStats[q]
            /\ \A e \in Range(lastOp'.emitted) : e.file # q
            /\ events' = events]_vars

\* C6 witness: a notification with no filename has just been handled for P,
\* its sweep got as far as an fs.stat call, and another path Q has a cached
\* snapshot a wider sweep would have covered.
C6_Witness ==
    /\ lastOp.op = "change"
    /\ lastOp.filename = NoFilename
    /\ \E c \in Range(lastOp.statCalls) : c.site = "manually"
    /\ \E q \in Paths \ {lastOp.path} : FStats[q] # NoStat

\* C7 (as claimed): for a raw notification with no filename, change() runs
\* the sweep instead of the primary resolution: its own fs.stat call is not
\* reached, at most one change event results and none names the absent
\* filename.
C7_FallbackReplacesPrimary ==
    (lastOp.op = "change" /\ lastOp.filename = NoFilename) =>
        /\ \A c \in Range(lastOp.statCalls) : c.site # "change"
        /\ \A r \in Range(lastOp.issued) : r.site # "change"
        /\ Len(lastOp.emitted) <= 1
        /\ \A e \in Range(lastOp.emitted) : e.file # NoFilename

C9_WatchFailure ==
    /\ (lastOp.op = "watch" /\ lastOp.threw) =>
        /\ lastOp.emitted = <<Removed(lastOp.path)>>
        /\ FSWatchers[lastOp.path] = NoHandle
        /\ FStats[lastOp.path] = NoStat
    /\ (/\ lastOp.op = "stats"
        /\ lastOp.site = "watch"
        /\ FSWatchers[lastOp.path] = NoHandle) =>
            FStats[lastOp.path] = NoStat

C11_ResetPreservesWatch ==
    [][(/\ lastOp'.op = "reset"
        /\ FSWatchers[lastOp'.path] # NoHandle
        /\ ~(lastOp'.threw /\ lastOp'.issued # <<>>)) =>
            /\ ~handles'[FSWatchers[lastOp'.path]].open
            /\ Len(handles') = Len(handles) + 1
            /\ FSWatchers'[lastOp'.path] = Len(handles')
            /\ handles'[Len(handles')] = [path |-> lastOp'.path, open |-> TRUE]
            /\ lastOp'.emitted = <<>>
            /\ events' = events]_vars

C14_MapsSynchronized ==
    \A p \in Paths : FStats[p] # NoStat => FSWatchers[p] # NoHandle

\* C15 (as claimed): at most one open FSWatcher exists for any path.
C15_OneLiveHandlePerPath ==
    \A p \in Paths :
        Cardinality({h \in DOMAIN handles :
                        handles[h].path = p /\ handles[h].open}) <= 1

\* The files of the sweep that has just run which have a cached snapshot and
\* are there to be stat-ed.
SweptAndThere ==
    {p \in Range(lastOp.batch) :
        FStats[p] # NoStat /\ fsys[p].kind # "absent"}

\* A re-stat of the sweep for file p is under way.
SweepStatPending(p) ==
    \E r \in Range(inflight) :
        r.site = "manually" /\ r.path = p /\ r.target = p

\* C16 (as claimed): a sweep re-stats each path that has a cached snapshot,
\* and when that succeeds a change event for the path with the new snapshot is
\* emitted if and only if the fresh mtime differs in value from the cached one:
\* right after the sweep call, the re-stat of every swept path whose mtime on
\* disk differs from the cached one is under way, and the completion of a
\* sweep's re-stat emits change exactly when the two mtimes differ.
C16_SweepGatesOnMtime ==
    /\ lastOp.op = "manually" =>
        \A p \in SweptAndThere :
            FStats[p].mtime # fsys[p].mtime => SweepStatPending(p)
    /\ (/\ lastOp.op = "stats"
        /\ lastOp.site = "manually"
        /\ fsys[lastOp.path].kind # "absent") =>
            lastOp.emitted =
                IF lastOp.current.mtime # fsys[lastOp.path].mtime
                THEN <<Event("change", lastOp.path, fsys[lastOp.path])>>
                ELSE <<>>

\* C17 (as claimed): once a sweep's stat of P has succeeded FStats[P] is the
\* fresh snapshot, emitted or not: a sweep over a cached path that is there
\* is either still stat-ing it or has left FStats[P] equal to what is on disk.
C17_SweepRefreshesCache ==
    /\ lastOp.op = "manually" =>
        \A p \in SweptAndThere :
            SweepStatPending(p) \/ FStats[p] = fsys[p]
    /\ (/\ lastOp.op = "stats"
        /\ lastOp.site = "manually"
        /\ fsys[lastOp.path].kind # "absent") =>
            FStats[lastOp.path] = fsys[lastOp.path]

\* C18 (as claimed): when a request issued later for the same path has
\* already completed and stored its snapshot, the completion of the
\* earlier-issued one leaves that snapshot in FStats: with nothing pending for
\* the path any more, FStats holds the result of the request issued last.
C18_NoStaleOverwrite ==
    (/\ lastOp.op = "stats"
     /\ lastOp.newer # NoStat
     /\ \A r \in Range(inflight) : r.path # lastOp.path) =>
        FStats[lastOp.path] = lastOp.newer

\* A change notification arrives on the handle whose error callback has just
\* run.
ChangeOnErroredHandle ==
    /\ lastOp.op = "error"
    /\ lastOp'.op = "change"
    /\ lastOp'.handle = lastOp.handle

ErrorLeavesOthers ==
    lastOp'.op = "error" =>
        \A q \in Paths \ {lastOp'.path} :
            /\ FSWatchers'[q] = FSWatchers[q]
            /\ FStats'[q] = FStats[q]
            /\ \A h \in DOMAIN handles :
                handles[h].path = q => handles'[h] = handles[h]
            /\ \A i \in DOMAIN lastOp'.emitted : lastOp'.emitted[i].file # q

\* A change notification for another watched path Q arrives right after the
\* error callback for P.
ChangeAfterErrorElsewhere ==
    /\ lastOp.op = "error"
    /\ lastOp'.op = "change"
    /\ lastOp'.path # lastOp.path
    /\ FSWatchers[lastOp'.path] = lastOp'.handle

\* C20 (as claimed): an error callback for P changes nothing of any other
\* path Q and emits no event naming Q, and watching of Q goes on delivering
\* change events: a change notification for Q after it stats Q, the stat whose
\* completion emits change.
C20_ErrorIsolation ==
    [][/\ ErrorLeavesOthers
       /\ ChangeAfterErrorElsewhere =>
            /\ ~lastOp'.threw
            /\ \E i \in DOMAIN lastOp'.issued :
                /\ lastOp'.issued[i].site = "change"
                /\ lastOp'.issued[i].target = lastOp'.path]_vars

====
